---- MODULE Spec2Model ----
(***************************************************************************)
(* Model of src/shell.rs of cross: the MessageInfo console reporter, its   *)
(* verbosity / color resolution, the emission methods, the erase-in-line   *)
(* bookkeeping of the two streams, the scoped verbosity override and the   *)
(* process-terminating paths.                                              *)
(*                                                                         *)
(* A stream is observed as the sequence of chunks one call wrote to it.    *)
(* A chunk is one write!/writeln!/println!/write_all of the source: its    *)
(* text and the style codes applied to it.  Every write of a call may      *)
(* fail (a broken pipe): the input failAt names the I/O operation of the   *)
(* call that fails, 0 meaning none.                                        *)
(***************************************************************************)
EXTENDS Integers, Sequences, FiniteSets, TLC

VARIABLES
    msg_info,   \* the MessageInfo value the caller holds
    stack,      \* the as_verbosity calls in progress, innermost last
    last,       \* the last operation: inputs, reporter on entry, bytes written, result
    proc,       \* "running", "exited" (std::process::exit) or "panicked"
    exit_code   \* the status handed to std::process::exit, NoExit before that

vars == <<msg_info, stack, last, proc, exit_code>>

-----------------------------------------------------------------------------
(* Bounds of the exploration *)

\* deepest nesting of as_verbosity calls explored
MaxDepth == 2

\* how many I/O operations past the last one of a call the failing operation
\* is drawn from (a failure point beyond the call's operations never fires)
MaxSlack == 0

-----------------------------------------------------------------------------
(* Types of the source *)

Verbosity == {"Quiet", "Normal", "Verbose"}

ColorChoice == {"Always", "Never", "Auto"}

\* Option<&str>
None == [some |-> FALSE, val |-> ""]

Some(s) == [some |-> TRUE, val |-> s]

\* the inputs the operations are explored with
Messages == {"disk full", "result: 42"}

UsageArgs == {"--target"}

ExitCodes == {1, 101}

ColorArgs == {None, Some("always"), Some("never"), Some("auto"),
              Some(""), Some("Always"), Some("red")}

ClosureResults == {"ok", "err"}

\* the environment of one call that performs at most n I/O operations: which
\* of them fails (0: none) and whether the destination stream reports color
\* support when owo_colors is asked
Envs(n) == [failAt : 0 .. (n + MaxSlack), cap : BOOLEAN]

\* the same for a call without styled writes, which never asks
PlainEnvs(n) == [failAt : 0 .. (n + MaxSlack), cap : {FALSE}]

NoExit == -1

-----------------------------------------------------------------------------
(* Streams *)

\* one successful write to a stream
Chunk(text, styles) == [kind |-> "write", text |-> text, styles |-> styles]

\* one successful flush of a stream
FlushChunk == [kind |-> "flush", text |-> "", styles |-> <<>>]

\* the bytes ESC [ K
EraseInLine == "\\x1B[K"

\* nothing written yet, no I/O operation attempted
IO0 == [stdout |-> <<>>, stderr |-> <<>>, n |-> 0, failed |-> FALSE]

\* one I/O operation on a stream; after a failure the `?` of the source has
\* returned, so nothing further is attempted
io_op(io, stream, chunk, env) ==
    IF io.failed THEN io
    ELSE IF io.n + 1 = env.failAt
         THEN [io EXCEPT !.n = @ + 1, !.failed = TRUE]
         ELSE [io EXCEPT !.n = @ + 1, ![stream] = Append(@, chunk)]

\* cross_prefix that leaves the tag out
cross_prefix_untagged(s) == s

cross_prefix(s) == "[cross]" \o " " \o s

\* write_style that never asks the stream in Auto mode
write_style_auto_always_styles(io, stream, self, message, styles, env) ==
    CASE self.color_choice = "Always" -> io_op(io, stream, Chunk(message, styles), env)
      [] self.color_choice = "Never"  -> io_op(io, stream, Chunk(message, <<>>), env)
      [] self.color_choice = "Auto"   -> io_op(io, stream, Chunk(message, styles), env)

write_style(io, stream, self, message, styles, env) ==
    CASE self.color_choice = "Always" -> io_op(io, stream, Chunk(message, styles), env)
      [] self.color_choice = "Never"  -> io_op(io, stream, Chunk(message, <<>>), env)
      [] self.color_choice = "Auto"   ->
            io_op(io, stream, Chunk(message, IF env.cap THEN styles ELSE <<>>), env)

\* message!(@status ...): "{status}: {message}", status and ':' bold
message_status(io, stream, status, message, color, self, env) ==
    LET a == write_style(io, stream, self, status, <<"bold", color>>, env)
        b == write_style(a, stream, self, ":", <<"bold">>, env)
    IN  IF message.some
        THEN io_op(b, stream, Chunk(" " \o message.val \o "\n", <<>>), env)
        ELSE io_op(b, stream, Chunk(" ", <<>>), env)

\* status!(@stderr ...)
status_stderr(io, status, message, color, self, env) ==
    message_status(io, "stderr", status, message, color, self, env)

\* println!("{}", message) / eprintln!("{}", message)
println(io, message, env) == io_op(io, "stdout", Chunk(message \o "\n", <<>>), env)

eprintln(io, message, env) == io_op(io, "stderr", Chunk(message \o "\n", <<>>), env)

-----------------------------------------------------------------------------
(* MessageInfo *)

new(color_choice, verbosity) ==
    [color_choice |-> color_choice,
     verbosity |-> verbosity,
     stdout_needs_erase |-> FALSE,
     stderr_needs_erase |-> FALSE]

default == new("Auto", "Normal")

from_ColorChoice(color_choice) == new(color_choice, "Normal")

\* From<Verbosity> that takes the wrong default for the color
from_Verbosity_never(verbosity) == new("Never", verbosity)

from_Verbosity(verbosity) == new("Auto", verbosity)

from_tuple(tuple) == new(tuple[1], tuple[2])

\* what a call hands back: the reporter, the I/O done, and how the call ended:
\* "ok" = Ok(()), "err" = Err(..), "panic" = panicked, "exit" = process::exit
Outcome(self, io, res, code) == [info |-> self, io |-> io, res |-> res, code |-> code]

OkOrErr(io) == IF io.failed THEN "err" ELSE "ok"

OkOrPanic(io) == IF io.failed THEN "panic" ELSE "ok"

erase_line(io, stream, env) == io_op(io, stream, Chunk(EraseInLine, <<>>), env)

\* stdout_check_erase that forgets to clear the flag
stdout_check_erase_keeps_flag(self, io, env) ==
    IF self.stdout_needs_erase
    THEN [info |-> self, io |-> erase_line(io, "stdout", env)]
    ELSE [info |-> self, io |-> io]

stdout_check_erase(self, io, env) ==
    IF self.stdout_needs_erase
    THEN LET e == erase_line(io, "stdout", env)
         IN  IF e.failed
             THEN [info |-> self, io |-> e]
             ELSE [info |-> [self EXCEPT !.stdout_needs_erase = FALSE], io |-> e]
    ELSE [info |-> self, io |-> io]

\* stderr_check_erase that clears the flag before it writes
stderr_check_erase_clears_first(self, io, env) ==
    IF self.stderr_needs_erase
    THEN [info |-> [self EXCEPT !.stderr_needs_erase = FALSE],
          io |-> erase_line(io, "stderr", env)]
    ELSE [info |-> self, io |-> io]

stderr_check_erase(self, io, env) ==
    IF self.stderr_needs_erase
    THEN LET e == erase_line(io, "stderr", env)
         IN  IF e.failed
             THEN [info |-> self, io |-> e]
             ELSE [info |-> [self EXCEPT !.stderr_needs_erase = FALSE], io |-> e]
    ELSE [info |-> self, io |-> io]

\* error that checks the flag of the wrong stream
error_erases_stdout(self, message, env) ==
    LET e == stdout_check_erase(self, IO0, env)
        w == status_stderr(e.io, cross_prefix("error"), Some(message), "red", e.info, env)
    IN  Outcome(e.info, w, OkOrErr(w), NoExit)

error(self, message, env) ==
    LET e == stderr_check_erase(self, IO0, env)
        w == status_stderr(e.io, cross_prefix("error"), Some(message), "red", e.info, env)
    IN  Outcome(e.info, w, OkOrErr(w), NoExit)

fatal(self, message, code, env) ==
    LET r == error(self, message, env)
    IN  IF r.res = "ok"
        THEN Outcome(r.info, r.io, "exit", code)
        ELSE Outcome(r.info, r.io, "panic", NoExit)

warn(self, message, env) ==
    IF self.verbosity = "Quiet"
    THEN Outcome(self, IO0, "ok", NoExit)
    ELSE LET w == status_stderr(IO0, cross_prefix("warning"), Some(message), "yellow", self, env)
         IN  Outcome(self, w, OkOrErr(w), NoExit)

note(self, message, env) ==
    IF self.verbosity = "Quiet"
    THEN Outcome(self, IO0, "ok", NoExit)
    ELSE LET w == status_stderr(IO0, cross_prefix("note"), Some(message), "cyan", self, env)
         IN  Outcome(self, w, OkOrErr(w), NoExit)

\* status that marks its line as one to be erased by the next write
status_marks_pending(self, message, env) ==
    IF self.verbosity = "Quiet"
    THEN Outcome(self, IO0, "ok", NoExit)
    ELSE LET w == eprintln(IO0, message, env)
         IN  Outcome([self EXCEPT !.stderr_needs_erase = TRUE], w, OkOrPanic(w), NoExit)

status(self, message, env) ==
    IF self.verbosity = "Quiet"
    THEN Outcome(self, IO0, "ok", NoExit)
    ELSE LET w == eprintln(IO0, message, env)
         IN  Outcome(self, w, OkOrPanic(w), NoExit)

\* print that checks the flag of the wrong stream
print_erases_stderr(self, message, env) ==
    LET e == stderr_check_erase(self, IO0, env)
    IN  IF e.io.failed
        THEN Outcome(e.info, e.io, "err", NoExit)
        ELSE LET w == println(e.io, message, env)
             IN  Outcome(e.info, w, OkOrPanic(w), NoExit)

print(self, message, env) ==
    LET e == stdout_check_erase(self, IO0, env)
    IN  IF e.io.failed
        THEN Outcome(e.info, e.io, "err", NoExit)
        ELSE LET w == println(e.io, message, env)
             IN  Outcome(e.info, w, OkOrPanic(w), NoExit)

\* info that erases the pending line before it looks at the verbosity
info_erases_first(self, message, env) ==
    LET e == stdout_check_erase(self, IO0, env)
    IN  IF e.io.failed
        THEN Outcome(e.info, e.io, "err", NoExit)
        ELSE IF e.info.verbosity = "Quiet"
             THEN Outcome(e.info, e.io, "ok", NoExit)
             ELSE LET w == println(e.io, message, env)
                  IN  Outcome(e.info, w, OkOrPanic(w), NoExit)

info(self, message, env) ==
    IF self.verbosity = "Quiet"
    THEN Outcome(self, IO0, "ok", NoExit)
    ELSE LET w == println(IO0, message, env)
         IN  Outcome(self, w, OkOrPanic(w), NoExit)

\* debug that is suppressed at Quiet only
debug_emits_at_normal(self, message, env) ==
    IF self.verbosity = "Quiet"
    THEN Outcome(self, IO0, "ok", NoExit)
    ELSE LET w == println(IO0, message, env)
         IN  Outcome(self, w, OkOrPanic(w), NoExit)

debug(self, message, env) ==
    IF self.verbosity \in {"Quiet", "Normal"}
    THEN Outcome(self, IO0, "ok", NoExit)
    ELSE LET w == println(IO0, message, env)
         IN  Outcome(self, w, OkOrPanic(w), NoExit)

error_usage(self, arg, env) ==
    LET s1  == write_style(IO0, "stderr", self, cross_prefix("error"), <<"bold", "red">>, env)
        s2  == write_style(s1, "stderr", self, ":", <<"bold">>, env)
        s3  == write_style(s2, "stderr", self, " The argument '", <<>>, env)
        s4  == write_style(s3, "stderr", self, arg, <<"yellow">>, env)
        s5  == write_style(s4, "stderr", self,
                           "' requires a value but none was supplied\n", <<>>, env)
        s6  == write_style(s5, "stderr", self, "Usage:\n", <<>>, env)
        s7  == write_style(s6, "stderr", self,
                           "    cross [+toolchain] [OPTIONS] [SUBCOMMAND]\n", <<>>, env)
        s8  == write_style(s7, "stderr", self, "\n", <<>>, env)
        s9  == write_style(s8, "stderr", self, "For more information try ", <<>>, env)
        s10 == write_style(s9, "stderr", self, "--help", <<"green">>, env)
        s11 == write_style(s10, "stderr", self, "\n", <<>>, env)
        s12 == io_op(s11, "stderr", FlushChunk, env)
    IN  Outcome(self, s12, OkOrErr(s12), NoExit)

fatal_usage(self, arg, code, env) ==
    LET r == error_usage(self, arg, env)
    IN  IF r.res = "ok"
        THEN Outcome(r.info, r.io, "exit", code)
        ELSE Outcome(r.info, r.io, "panic", NoExit)

\* as_verbosity up to the call of the closure: the local `old` and the reporter
\* the closure is called with
as_verbosity_enter(self, level) ==
    [old |-> self.verbosity, info |-> [self EXCEPT !.verbosity = level]]

\* as_verbosity that does not put the old verbosity back
as_verbosity_exit_no_restore(self, old, result) ==
    [info |-> self, result |-> result]

\* as_verbosity after the closure returned `result`
as_verbosity_exit(self, old, result) ==
    [info |-> [self EXCEPT !.verbosity = old], result |-> result]

-----------------------------------------------------------------------------
(* Resolution of the command-line flags *)

\* get_color_choice that falls back to Auto on a string it does not know
get_color_choice_lenient(color) ==
    CASE color = Some("always") -> [ok |-> TRUE, val |-> "Always"]
      [] color = Some("never")  -> [ok |-> TRUE, val |-> "Never"]
      [] OTHER -> [ok |-> TRUE, val |-> "Auto"]

get_color_choice(color) ==
    CASE color = Some("always") -> [ok |-> TRUE, val |-> "Always"]
      [] color = Some("never")  -> [ok |-> TRUE, val |-> "Never"]
      [] color = Some("auto") \/ color = None -> [ok |-> TRUE, val |-> "Auto"]
      [] OTHER -> [ok |-> FALSE, val |-> ""]

\* get_verbosity with the two single-flag arms exchanged
get_verbosity_arms_swapped(color_choice, verbose, quiet, env) ==
    CASE verbose /\ quiet ->
            LET r == error(from_ColorChoice(color_choice),
                           "cannot set both --verbose and --quiet", env)
            IN  IF r.res = "ok"
                THEN [res |-> "exit", val |-> "", io |-> r.io, code |-> 101]
                ELSE [res |-> "err", val |-> "", io |-> r.io, code |-> NoExit]
      [] verbose /\ ~quiet  -> [res |-> "ok", val |-> "Quiet", io |-> IO0, code |-> NoExit]
      [] ~verbose /\ quiet  -> [res |-> "ok", val |-> "Verbose", io |-> IO0, code |-> NoExit]
      [] ~verbose /\ ~quiet -> [res |-> "ok", val |-> "Normal", io |-> IO0, code |-> NoExit]

\* res "ok" carries the level in val; "err" and "exit" carry none
get_verbosity(color_choice, verbose, quiet, env) ==
    CASE verbose /\ quiet ->
            LET r == error(from_ColorChoice(color_choice),
                           "cannot set both --verbose and --quiet", env)
            IN  IF r.res = "ok"
                THEN [res |-> "exit", val |-> "", io |-> r.io, code |-> 101]
                ELSE [res |-> "err", val |-> "", io |-> r.io, code |-> NoExit]
      [] verbose /\ ~quiet  -> [res |-> "ok", val |-> "Verbose", io |-> IO0, code |-> NoExit]
      [] ~verbose /\ quiet  -> [res |-> "ok", val |-> "Quiet", io |-> IO0, code |-> NoExit]
      [] ~verbose /\ ~quiet -> [res |-> "ok", val |-> "Normal", io |-> IO0, code |-> NoExit]

\* on "ok" info is the new reporter; otherwise the caller receives none and
\* info is the reporter it already held
create(held, verbose, quiet, color, env) ==
    LET c == get_color_choice(color)
    IN  IF ~c.ok
        THEN Outcome(held, IO0, "err", NoExit)
        ELSE LET v == get_verbosity(c.val, verbose, quiet, env)
             IN  IF v.res = "ok"
                 THEN Outcome([color_choice |-> c.val,
                               verbosity |-> v.val,
                               stdout_needs_erase |-> FALSE,
                               stderr_needs_erase |-> FALSE], v.io, "ok", NoExit)
                 ELSE Outcome(held, v.io, v.res, v.code)

-----------------------------------------------------------------------------
(* The caller: a single thread that constructs the reporter, sets its public *)
(* fields and calls its methods                                              *)

NoInput == [msg |-> "", level |-> "", color_choice |-> "", ret |-> "", code |-> NoExit,
            verbose |-> FALSE, quiet |-> FALSE, color |-> None]

\* the record kept of one operation
LogOf(op, in, entry, r, env) ==
    [op |-> op, in |-> in, entry |-> entry,
     stdout |-> r.io.stdout, stderr |-> r.io.stderr,
     io_failed |-> r.io.failed, res |-> r.res, cap |-> env.cap]

NoEnv == [failAt |-> 0, cap |-> FALSE]

\* the effect of a method call that ended as r
Finish(op, in, r, env) ==
    /\ msg_info' = r.info
    /\ last' = LogOf(op, in, msg_info, r, env)
    /\ proc' = CASE r.res = "exit"  -> "exited"
                 [] r.res = "panic" -> "panicked"
                 [] OTHER           -> "running"
    /\ exit_code' = IF r.res = "exit" THEN r.code ELSE exit_code
    /\ UNCHANGED stack

Init ==
    /\ msg_info = default
    /\ stack = <<>>
    /\ last = LogOf("default", NoInput, default, Outcome(default, IO0, "ok", NoExit), NoEnv)
    /\ proc = "running"
    /\ exit_code = NoExit

(* constructors: the caller replaces the reporter it holds *)

New ==
    /\ proc = "running" /\ stack = <<>>
    /\ \E c \in ColorChoice, v \in Verbosity :
         Finish("new", [NoInput EXCEPT !.color_choice = c, !.level = v],
                Outcome(new(c, v), IO0, "ok", NoExit), NoEnv)

Default ==
    /\ proc = "running" /\ stack = <<>>
    /\ Finish("default", NoInput, Outcome(default, IO0, "ok", NoExit), NoEnv)

FromColorChoice ==
    /\ proc = "running" /\ stack = <<>>
    /\ \E c \in ColorChoice :
         Finish("from_ColorChoice", [NoInput EXCEPT !.color_choice = c],
                Outcome(from_ColorChoice(c), IO0, "ok", NoExit), NoEnv)

FromVerbosity ==
    /\ proc = "running" /\ stack = <<>>
    /\ \E v \in Verbosity :
         Finish("from_Verbosity", [NoInput EXCEPT !.level = v],
                Outcome(from_Verbosity(v), IO0, "ok", NoExit), NoEnv)

FromTuple ==
    /\ proc = "running" /\ stack = <<>>
    /\ \E c \in ColorChoice, v \in Verbosity :
         Finish("from_tuple", [NoInput EXCEPT !.color_choice = c, !.level = v],
                Outcome(from_tuple(<<c, v>>), IO0, "ok", NoExit), NoEnv)

Create ==
    /\ proc = "running" /\ stack = <<>>
    /\ \E verbose \in BOOLEAN, quiet \in BOOLEAN, color \in ColorArgs, env \in Envs(3) :
         Finish("create",
                [NoInput EXCEPT !.verbose = verbose, !.quiet = quiet, !.color = color],
                create(msg_info, verbose, quiet, color, env), env)

(* the public fields *)

SetStdoutNeedsErase ==
    /\ proc = "running"
    /\ Finish("set_stdout_needs_erase", NoInput,
              Outcome([msg_info EXCEPT !.stdout_needs_erase = TRUE], IO0, "ok", NoExit),
              NoEnv)

SetStderrNeedsErase ==
    /\ proc = "running"
    /\ Finish("set_stderr_needs_erase", NoInput,
              Outcome([msg_info EXCEPT !.stderr_needs_erase = TRUE], IO0, "ok", NoExit),
              NoEnv)

SetVerbosity ==
    /\ proc = "running"
    /\ \E v \in Verbosity :
         Finish("set_verbosity", [NoInput EXCEPT !.level = v],
                Outcome([msg_info EXCEPT !.verbosity = v], IO0, "ok", NoExit), NoEnv)

(* the emission methods *)

Error ==
    /\ proc = "running"
    /\ \E m \in Messages, env \in Envs(4) :
         Finish("error", [NoInput EXCEPT !.msg = m], error(msg_info, m, env), env)

Warn ==
    /\ proc = "running"
    /\ \E m \in Messages, env \in Envs(3) :
         Finish("warn", [NoInput EXCEPT !.msg = m], warn(msg_info, m, env), env)

Note ==
    /\ proc = "running"
    /\ \E m \in Messages, env \in Envs(3) :
         Finish("note", [NoInput EXCEPT !.msg = m], note(msg_info, m, env), env)

Status ==
    /\ proc = "running"
    /\ \E m \in Messages, env \in PlainEnvs(1) :
         Finish("status", [NoInput EXCEPT !.msg = m], status(msg_info, m, env), env)

PrintMessage ==
    /\ proc = "running"
    /\ \E m \in Messages, env \in PlainEnvs(2) :
         Finish("print", [NoInput EXCEPT !.msg = m], print(msg_info, m, env), env)

Info ==
    /\ proc = "running"
    /\ \E m \in Messages, env \in PlainEnvs(1) :
         Finish("info", [NoInput EXCEPT !.msg = m], info(msg_info, m, env), env)

Debug ==
    /\ proc = "running"
    /\ \E m \in Messages, env \in PlainEnvs(1) :
         Finish("debug", [NoInput EXCEPT !.msg = m], debug(msg_info, m, env), env)

(* the terminating methods *)

Fatal ==
    /\ proc = "running"
    /\ \E m \in Messages, code \in ExitCodes, env \in Envs(4) :
         Finish("fatal", [NoInput EXCEPT !.msg = m, !.code = code],
                fatal(msg_info, m, code, env), env)

FatalUsage ==
    /\ proc = "running"
    /\ \E a \in UsageArgs, code \in ExitCodes, env \in Envs(12) :
         Finish("fatal_usage", [NoInput EXCEPT !.msg = a, !.code = code],
                fatal_usage(msg_info, a, code, env), env)

(* the scoped override: as_verbosity calls the closure, whose body is the   *)
(* caller's steps above, and resumes when the closure returns               *)

AsVerbosityCall(op, level) ==
    /\ proc = "running"
    /\ Len(stack) < MaxDepth
    /\ LET e == as_verbosity_enter(msg_info, level)
       IN  /\ msg_info' = e.info
           /\ stack' = Append(stack, [old |-> e.old, entry |-> msg_info.verbosity])
           /\ last' = LogOf(op, [NoInput EXCEPT !.level = level], msg_info,
                            Outcome(e.info, IO0, "ok", NoExit), NoEnv)
    /\ UNCHANGED <<proc, exit_code>>

AsQuiet == AsVerbosityCall("as_quiet", "Quiet")

AsNormal == AsVerbosityCall("as_normal", "Normal")

AsVerbose == AsVerbosityCall("as_verbose", "Verbose")

AsVerbosityReturn ==
    /\ proc = "running"
    /\ stack # <<>>
    /\ \E result \in ClosureResults :
         LET x == as_verbosity_exit(msg_info, stack[Len(stack)].old, result)
         IN  /\ msg_info' = x.info
             /\ stack' = SubSeq(stack, 1, Len(stack) - 1)
             /\ last' = LogOf("as_verbosity_return", [NoInput EXCEPT !.ret = result],
                              msg_info, Outcome(x.info, IO0, x.result, NoExit), NoEnv)
    /\ UNCHANGED <<proc, exit_code>>

Next ==
    \/ New \/ Default \/ FromColorChoice \/ FromVerbosity \/ FromTuple \/ Create
    \/ SetStdoutNeedsErase \/ SetStderrNeedsErase \/ SetVerbosity
    \/ Error \/ Warn \/ Note \/ Status \/ PrintMessage \/ Info \/ Debug
    \/ Fatal \/ FatalUsage
    \/ AsQuiet \/ AsNormal \/ AsVerbose \/ AsVerbosityReturn

Spec == Init /\ [][Next]_vars

-----------------------------------------------------------------------------
(* Type correctness *)

TypeOK ==
    /\ msg_info \in [color_choice : ColorChoice, verbosity : Verbosity,
                     stdout_needs_erase : BOOLEAN, stderr_needs_erase : BOOLEAN]
    /\ Len(stack) <= MaxDepth
    /\ proc \in {"running", "exited", "panicked"}
    /\ exit_code \in ExitCodes \cup {NoExit}

-----------------------------------------------------------------------------
(* Vocabulary of the properties *)

Streams == {"stdout", "stderr"}

EmissionMethods == {"error", "warn", "note", "status", "print", "info", "debug"}

SecondaryMethods == {"error", "warn", "note", "status"}

PrimaryMethods == {"print", "info", "debug"}

\* the stream a method is documented to write to
DestinationOf(op) == IF op \in SecondaryMethods THEN "stderr" ELSE "stdout"

\* the levels at which a method is documented to emit
EmitsAt(op, level) ==
    CASE op \in {"error", "print"}                  -> TRUE
      [] op \in {"warn", "note", "status", "info"}  -> level \in {"Normal", "Verbose"}
      [] op = "debug"                               -> level = "Verbose"

NeedsErase(self, stream) ==
    IF stream = "stdout" THEN self.stdout_needs_erase ELSE self.stderr_needs_erase

IsErase(chunk) == chunk.kind = "write" /\ chunk.text = EraseInLine

EraseCount(chunks) == Cardinality({i \in DOMAIN chunks : IsErase(chunks[i])})

\* the chunk that carries the message of an emission method
BodyOf(op, m) ==
    IF op \in {"error", "warn", "note"}
    THEN Chunk(" " \o m \o "\n", <<>>)
    ELSE Chunk(m \o "\n", <<>>)

WroteBody(log) ==
    \E i \in DOMAIN log[DestinationOf(log.op)] :
        log[DestinationOf(log.op)][i] = BodyOf(log.op, log.in.msg)

\* the last operation was an emission call that verbosity lets through
LastEmitted == last.op \in EmissionMethods /\ EmitsAt(last.op, last.entry.verbosity)

\* the last operation was an emission call that verbosity suppresses
LastSuppressed == last.op \in EmissionMethods /\ ~EmitsAt(last.op, last.entry.verbosity)

-----------------------------------------------------------------------------
(* Properties *)

\* C1: every emission method (error, warn, note, status to stderr; print,
\* info, debug to stdout) that is not suppressed and finds its stream's
\* needs_erase flag set writes ESC [ K to that stream before its own content
\* and returns with the flag cleared.
C1_EraseBeforeWrite ==
    (LastEmitted /\ last.res = "ok" /\ NeedsErase(last.entry, DestinationOf(last.op)))
        => /\ last[DestinationOf(last.op)] # <<>>
           /\ IsErase(Head(last[DestinationOf(last.op)]))
           /\ ~NeedsErase(msg_info, DestinationOf(last.op))

\* C2: a call writes its message exactly at the levels of its method: error
\* and print at every level, warn, note, status and info at Normal and
\* Verbose, debug at Verbose; at any other level it writes nothing and
\* returns Ok.
C2_VerbosityGating ==
    last.op \in EmissionMethods
        => /\ WroteBody(last) => EmitsAt(last.op, last.entry.verbosity)
           /\ (EmitsAt(last.op, last.entry.verbosity) /\ ~last.io_failed) => WroteBody(last)
           /\ ~EmitsAt(last.op, last.entry.verbosity)
                 => (last.stdout = <<>> /\ last.stderr = <<>> /\ last.res = "ok")

C2_Witness ==
    /\ last.op = "debug" /\ last.entry.verbosity = "Verbose" /\ WroteBody(last)

\* C3: a call suppressed by verbosity writes nothing to either stream and
\* leaves every field of the reporter, both needs_erase flags included, as it
\* was on entry.
C3_SuppressedIsNoOp ==
    LastSuppressed
        => /\ last.stdout = <<>> /\ last.stderr = <<>>
           /\ ~last.io_failed
           /\ msg_info = last.entry
           /\ proc = "running"

C3_Witness ==
    /\ last.op = "info" /\ last.entry.verbosity = "Quiet"
    /\ last.entry.stdout_needs_erase /\ last.entry.stderr_needs_erase

\* C4: as_quiet / as_normal / as_verbose call the closure with the reporter's
\* verbosity equal to the requested level, and when the call returns the
\* verbosity is the one the reporter had before the call, whatever the closure
\* returned or did (nested overrides included); the closure's result is the
\* value returned.
C4_ScopedOverride ==
    [][ /\ Len(stack') > Len(stack)
            => /\ msg_info'.verbosity = last'.in.level
               /\ stack'[Len(stack')].entry = msg_info.verbosity
        /\ Len(stack') < Len(stack)
            => /\ msg_info'.verbosity = stack[Len(stack)].entry
               /\ last'.res = last'.in.ret
               /\ [msg_info' EXCEPT !.verbosity = msg_info.verbosity] = msg_info
      ]_vars

C4_Witness ==
    /\ last.op = "as_verbosity_return" /\ last.in.ret = "err"
    /\ Len(stack) = 1
    /\ msg_info.verbosity # last.entry.verbosity
    /\ msg_info.verbosity # stack[1].entry

\* C5: create (get_verbosity) with verbose and quiet both set and a valid
\* color never returns: it writes the error about --verbose and --quiet to
\* stderr and the process exits with status 101, whether or not the write
\* succeeds.
C5_ConflictNeverReturns ==
    (last.op = "create" /\ last.in.verbose /\ last.in.quiet
        /\ get_color_choice(last.in.color).ok)
        => /\ proc = "exited"
           /\ exit_code = 101

\* C6: fatal(message, code) ends the process with exit status code in every
\* execution, also when the write of the error line fails.
C6_FatalExitsWithCode ==
    last.op = "fatal" => (proc = "exited" /\ exit_code = last.in.code)

\* C7: when a write of an emission method fails, the method returns Err to
\* its caller and the process keeps running.
C7_IoFailureIsReturned ==
    (last.op \in EmissionMethods /\ last.io_failed)
        => (last.res = "err" /\ proc = "running")

\* C8: print emits at every level: with stdout_needs_erase set on entry stdout
\* receives ESC [ K and then the message and a newline, and the flag is
\* cleared; with the flag clear only the message and newline; nothing goes to
\* stderr and stderr_needs_erase keeps its value.
C8_Print ==
    last.op = "print"
        => /\ last.res = "ok"
                => /\ last.entry.stdout_needs_erase
                        => /\ last.stdout = <<Chunk(EraseInLine, <<>>),
                                              Chunk(last.in.msg \o "\n", <<>>)>>
                           /\ ~msg_info.stdout_needs_erase
                   /\ ~last.entry.stdout_needs_erase
                        => /\ last.stdout = <<Chunk(last.in.msg \o "\n", <<>>)>>
                           /\ ~msg_info.stdout_needs_erase
           /\ last.stderr = <<>>
           /\ msg_info.stderr_needs_erase = last.entry.stderr_needs_erase

C8_Witness ==
    /\ last.op = "print" /\ last.res = "ok"
    /\ last.entry.verbosity = "Quiet"
    /\ last.entry.stdout_needs_erase /\ last.entry.stderr_needs_erase

\* C9: ESC [ K is written to a stream only by a call that found the stream's
\* needs_erase flag set on entry, and once; of two consecutive writes to one
\* stream with no setting of the flag between them, the second writes no
\* ESC [ K.
C9_NoSpuriousErase ==
    [][ \A s \in Streams :
          /\ (last'.op \in EmissionMethods /\ EraseCount(last'[s]) > 0)
                => (EraseCount(last'[s]) = 1 /\ NeedsErase(msg_info, s))
          /\ (/\ last.op \in EmissionMethods /\ last[s] # <<>>
              /\ last'.op \in EmissionMethods /\ last'[s] # <<>>)
                => EraseCount(last'[s]) = 0
      ]_vars

\* C10: error, warn, note, status and the usage error write to stderr only,
\* print, info and debug to stdout only, the erase sequence included; a call
\* that emits and succeeds has written to its stream.
C10_Routing ==
    /\ last.op \in SecondaryMethods \cup {"fatal", "fatal_usage"} => last.stdout = <<>>
    /\ last.op \in PrimaryMethods => last.stderr = <<>>
    /\ (LastEmitted /\ last.res = "ok") => last[DestinationOf(last.op)] # <<>>
    /\ (last.op = "fatal_usage" /\ last.res = "exit") => last.stderr # <<>>

C10_Witness ==
    /\ last.op = "error" /\ last.res = "ok"
    /\ last.entry.stdout_needs_erase /\ last.entry.stderr_needs_erase
    /\ EraseCount(last.stderr) = 1

\* the positions of the chunks of a stream that carry the given text
PositionsOf(chunks, text) ==
    {i \in DOMAIN chunks : chunks[i].kind = "write" /\ chunks[i].text = text}

\* C11: fatal_usage is not subject to verbosity and always terminates: at
\* every level, Quiet included, it writes to stderr the error label, then the
\* argument, then the usage synopsis, then the pointer to --help, then flushes
\* stderr, and only then the process exits with exactly the status code it
\* was given; it never returns.
C11_FatalUsage ==
    last.op = "fatal_usage"
        => /\ proc = "exited"
           /\ exit_code = last.in.code
           /\ last.stdout = <<>>
           /\ \E l \in PositionsOf(last.stderr, "[cross] error"),
                 a \in PositionsOf(last.stderr, last.in.msg),
                 u \in PositionsOf(last.stderr,
                          "    cross [+toolchain] [OPTIONS] [SUBCOMMAND]\n"),
                 h \in PositionsOf(last.stderr, "--help") :
                 /\ l < a /\ a < u /\ u < h /\ h < Len(last.stderr)
                 /\ last.stderr[Len(last.stderr)] = FlushChunk
                 /\ \A i \in 1 .. (Len(last.stderr) - 1) :
                        last.stderr[i].kind = "write"

\* the style the source asks for on each styled text
RequestedStyle(text) ==
    CASE text = "[cross] error"   -> <<"bold", "red">>
      [] text = "[cross] warning" -> <<"bold", "yellow">>
      [] text = "[cross] note"    -> <<"bold", "cyan">>
      [] text = ":"               -> <<"bold">>
      [] text \in UsageArgs       -> <<"yellow">>
      [] text = "--help"          -> <<"green">>
      [] OTHER                    -> <<>>

StyledMethods == {"error", "warn", "note", "fatal", "fatal_usage"}

\* C12: every styled write (label, colon, highlighted argument) carries its
\* style codes under Always whatever the stream reports, carries none under
\* Never, and under Auto carries them exactly when the stream reports color
\* support at that call, so calls that see different reports are styled
\* differently.
C12_ColorPerWrite ==
    last.op \in StyledMethods
        => \A i \in DOMAIN last.stderr :
              last.stderr[i].kind = "write"
                 => last.stderr[i].styles =
                       CASE last.entry.color_choice = "Always" ->
                               RequestedStyle(last.stderr[i].text)
                         [] last.entry.color_choice = "Never" -> <<>>
                         [] last.entry.color_choice = "Auto" ->
                               IF last.cap
                               THEN RequestedStyle(last.stderr[i].text)
                               ELSE <<>>

C12_Witness ==
    /\ last.op = "warn" /\ last.res = "ok"
    /\ last.entry.color_choice = "Auto" /\ ~last.cap
    /\ Len(last.stderr) = 3
    /\ last.stderr[1].text = "[cross] warning" /\ last.stderr[1].styles = <<>>

\* the label of a status line as it appears on the terminal
LabelOf(op) ==
    CASE op = "error" -> "[cross] error"
      [] op = "warn"  -> "[cross] warning"
      [] op = "note"  -> "[cross] note"

\* the texts of the chunks, joined
RECURSIVE TextOf(_)
TextOf(chunks) ==
    IF chunks = <<>> THEN "" ELSE Head(chunks).text \o TextOf(Tail(chunks))

\* what a call wrote after the erase sequence, if it wrote one
AfterErase(chunks) ==
    IF chunks # <<>> /\ IsErase(Head(chunks)) THEN Tail(chunks) ELSE chunks

\* C13: error, warn and note, when not suppressed, write to stderr the label
\* with the "[cross]" tag, a colon, then a space, the message and a newline;
\* under color Never and with stderr_needs_erase clear, error(m) writes exactly
\* "[cross] error: m\n" with no escape code, at every verbosity.
C13_StatusLineLayout ==
    /\ (last.op \in {"error", "warn", "note"} /\ LastEmitted /\ last.res = "ok")
          => /\ Len(AfterErase(last.stderr)) = 3
             /\ AfterErase(last.stderr)[1].text = LabelOf(last.op)
             /\ AfterErase(last.stderr)[2].text = ":"
             /\ AfterErase(last.stderr)[3].text = " " \o last.in.msg \o "\n"
             /\ \A i \in 1 .. 3 : AfterErase(last.stderr)[i].kind = "write"
    /\ (/\ last.op = "error" /\ last.res = "ok"
        /\ last.entry.color_choice = "Never" /\ ~last.entry.stderr_needs_erase)
          => /\ TextOf(last.stderr) = "[cross] error: " \o last.in.msg \o "\n"
             /\ \A i \in DOMAIN last.stderr : last.stderr[i].styles = <<>>
             /\ EraseCount(last.stderr) = 0

C13_Witness ==
    /\ last.op = "error" /\ last.res = "ok" /\ last.in.msg = "disk full"
    /\ last.entry.color_choice = "Never" /\ ~last.entry.stderr_needs_erase
    /\ last.entry.verbosity = "Quiet"
    /\ TextOf(last.stderr) = "[cross] error: disk full\n"

\* the color arguments the command line documents
ValidColorArgs == {None, Some("always"), Some("never"), Some("auto")}

\* the level each pair of flags stands for
LevelOfFlags(verbose, quiet) ==
    CASE verbose /\ ~quiet  -> "Verbose"
      [] ~verbose /\ quiet  -> "Quiet"
      [] ~verbose /\ ~quiet -> "Normal"

\* C14: on the three pairs of flags that do not conflict the verbosity is
\* resolved to Verbose, Quiet, Normal respectively, whatever the color mode,
\* with nothing written to either stream and the process left running.
C14_VerbosityResolution ==
    (/\ last.op = "create" /\ last.in.color \in ValidColorArgs
     /\ ~(last.in.verbose /\ last.in.quiet))
        => /\ last.res = "ok"
           /\ msg_info.verbosity = LevelOfFlags(last.in.verbose, last.in.quiet)
           /\ last.stdout = <<>> /\ last.stderr = <<>>
           /\ proc = "running" /\ exit_code = NoExit

C14_Witness ==
    /\ last.op = "create" /\ last.in.color = Some("never")
    /\ last.in.verbose /\ ~last.in.quiet
    /\ last.entry.verbosity = "Quiet" /\ msg_info.verbosity = "Verbose"

\* the color mode each documented argument stands for
ColorOfArg(color) ==
    CASE color = None           -> "Auto"
      [] color = Some("always") -> "Always"
      [] color = Some("never")  -> "Never"
      [] color = Some("auto")   -> "Auto"

\* C15: an absent color resolves to Auto, "always" to Always, "never" to Never
\* and "auto" to Auto; any other string, the empty and the differently cased
\* ones included, is an error that yields no color mode, and create then
\* returns that error with nothing written and the process running, also when
\* verbose and quiet are both set.
C15_ColorResolution ==
    last.op = "create"
        => /\ (last.in.color \in ValidColorArgs /\ last.res = "ok")
                => msg_info.color_choice = ColorOfArg(last.in.color)
           /\ (last.in.color \in ValidColorArgs /\ ~(last.in.verbose /\ last.in.quiet))
                => last.res = "ok"
           /\ last.in.color \notin ValidColorArgs
                => /\ last.res = "err"
                   /\ msg_info = last.entry
                   /\ last.stdout = <<>> /\ last.stderr = <<>> /\ ~last.io_failed
                   /\ proc = "running" /\ exit_code = NoExit

C15_Witness ==
    /\ last.op = "create" /\ last.in.color = Some("Always")
    /\ last.in.verbose /\ last.in.quiet
    /\ last.res = "err" /\ proc = "running"

\* a freshly built reporter with the given settings
Fresh(color_choice, verbosity) ==
    /\ msg_info.color_choice = color_choice
    /\ msg_info.verbosity = verbosity
    /\ ~msg_info.stdout_needs_erase
    /\ ~msg_info.stderr_needs_erase

\* C16: a reporter built by new, Default, From<ColorChoice>, From<Verbosity>,
\* From<(ColorChoice, Verbosity)> or a successful create reads back the color
\* mode and verbosity it was given, Auto and Normal standing in for the one
\* not given, with both needs_erase flags clear.
C16_ConstructionRoundTrip ==
    /\ last.op = "new" => Fresh(last.in.color_choice, last.in.level)
    /\ last.op = "default" => Fresh("Auto", "Normal")
    /\ last.op = "from_ColorChoice" => Fresh(last.in.color_choice, "Normal")
    /\ last.op = "from_Verbosity" => Fresh("Auto", last.in.level)
    /\ last.op = "from_tuple" => Fresh(last.in.color_choice, last.in.level)
    /\ (last.op = "create" /\ last.res = "ok")
          => Fresh(ColorOfArg(last.in.color),
                   LevelOfFlags(last.in.verbose, last.in.quiet))

C16_Witness ==
    /\ last.op = "from_Verbosity" /\ last.in.level = "Verbose"
    /\ last.entry.color_choice = "Always"
    /\ last.entry.stdout_needs_erase /\ last.entry.stderr_needs_erase
    /\ msg_info.color_choice = "Auto"

\* C17: in error and print, when the write of the erase sequence fails the
\* call returns the failure with the stream's needs_erase flag still set and
\* none of its own content written; the flag is clear after the call only if
\* the erase sequence was written.
C17_EraseFailureKeepsFlag ==
    (last.op \in {"error", "print"} /\ NeedsErase(last.entry, DestinationOf(last.op)))
        => /\ (last.io_failed /\ EraseCount(last[DestinationOf(last.op)]) = 0)
                => /\ last.res = "err"
                   /\ NeedsErase(msg_info, DestinationOf(last.op))
                   /\ last.stdout = <<>> /\ last.stderr = <<>>
                   /\ proc = "running"
           /\ ~NeedsErase(msg_info, DestinationOf(last.op))
                => /\ last[DestinationOf(last.op)] # <<>>
                   /\ IsErase(Head(last[DestinationOf(last.op)]))

C17_Witness ==
    /\ last.op = "print" /\ last.entry.stdout_needs_erase
    /\ last.io_failed /\ last.res = "err"
    /\ last.stdout = <<>> /\ msg_info.stdout_needs_erase

\* the operation by which the caller sets the flag of a stream itself
SetterOf(stream) ==
    IF stream = "stdout" THEN "set_stdout_needs_erase" ELSE "set_stderr_needs_erase"

\* the operations that hand the caller a new reporter
Constructors ==
    {"new", "default", "from_ColorChoice", "from_Verbosity", "from_tuple", "create"}

\* C18: no constructor, emission method, terminating method or scoped override
\* turns a needs_erase flag from false to true; a flag the caller set stays
\* set on that reporter until a call writes the erase sequence to its stream.
C18_FlagsOnlyFall ==
    [][ \A s \in Streams :
          /\ last'.op # SetterOf(s)
                => (NeedsErase(msg_info', s) => NeedsErase(msg_info, s))
          /\ (/\ last'.op \notin Constructors
              /\ NeedsErase(msg_info, s) /\ ~NeedsErase(msg_info', s))
                => EraseCount(last'[s]) = 1
      ]_vars

C18_Witness ==
    /\ last.op = "error"
    /\ last.entry.stderr_needs_erase /\ ~msg_info.stderr_needs_erase
    /\ last.entry.stdout_needs_erase /\ msg_info.stdout_needs_erase
    /\ stack # <<>>

\* the stream a method does not write to
OtherStream(op) == IF DestinationOf(op) = "stdout" THEN "stderr" ELSE "stdout"

\* C19: an emission call, whether it succeeds, is suppressed or fails, leaves
\* the reporter's color mode and verbosity as they were and leaves the
\* needs_erase flag of the stream it does not write to as it was.
C19_EmissionFrame ==
    last.op \in EmissionMethods
        => /\ msg_info.color_choice = last.entry.color_choice
           /\ msg_info.verbosity = last.entry.verbosity
           /\ NeedsErase(msg_info, OtherStream(last.op))
                 = NeedsErase(last.entry, OtherStream(last.op))

C19_Witness ==
    /\ last.op = "print" /\ last.io_failed
    /\ last.entry.stdout_needs_erase /\ last.entry.stderr_needs_erase
    /\ last.entry.color_choice = "Never" /\ last.entry.verbosity = "Verbose"
    /\ msg_info.stderr_needs_erase

====
